---- MODULE Spec2Model ----
(***************************************************************************)
(* Model of generate_favicons.py: a straight-line script that creates the  *)
(* output directory, decodes icon.png, writes eight square PNGs, one       *)
(* multi-size favicon.ico and apple-touch-icon.png, and prints a progress  *)
(* line after each save.  One action per statement of the script; the      *)
(* environment (the source file, the state of the output directory, and    *)
(* whether a write succeeds) is chosen nondeterministically.               *)
(*                                                                         *)
(* Library calls are modelled by their documented behaviour:               *)
(*   os.makedirs(p, exist_ok=True)  succeeds when p is already a directory *)
(*   Image.resize(size)             returns a NEW image of exactly `size`  *)
(*   Image.save(fmt="ICO", sizes=, append_images=)  keeps only the sizes   *)
(*       that are no larger than the image save() is called on (and no     *)
(*       larger than 256), sorted, taking each frame from the provided     *)
(*       images by size (Pillow, IcoImagePlugin._save).                    *)
(***************************************************************************)
EXTENDS Integers, Sequences, FiniteSets, TLC

VARIABLES
    pc,          \* position of the script
    size,        \* index of the `for size in sizes` loop
    img,         \* the decoded source image (line 8)
    resized,     \* the loop's resized image (line 14)
    ico_images,  \* the list built at line 20
    src,         \* the file icon.png
    dirState,    \* the path favicons/: "absent", "dir" or "file"
    dirWritable, \* whether favicons/ may be created when absent
    fs,          \* contents of the files under favicons/
    out,         \* lines printed on stdout by this run
    written,     \* names whose save completed in this run, in order
    events,      \* statements completed in this run, in order
    failed,      \* the statement that raised, "" when none did
    exitCode,    \* process exit status, -1 while running
    run,         \* number of the current run
    fs0,         \* history: fs when the current run started
    prev         \* history: outcome and fs at the end of the previous run

vars == <<pc, size, img, resized, ico_images, src, dirState, dirWritable, fs,
          out, written, events, failed, exitCode, run, fs0, prev>>

\* number of consecutive runs of the script that are explored
MaxRuns == 2

----------------------------------------------------------------------------
\* Constants of the script

SOURCE == "icon.png"

OUTPUT_DIR == "favicons"

\* variant: the list with the 24-pixel size added
sizesWith24 == <<16, 24, 32, 48, 64, 128, 180, 192, 512>>

sizes == <<16, 32, 48, 64, 128, 180, 192, 512>>

ico_sizes == << <<16, 16>>, <<32, 32>>, <<48, 48>>, <<64, 64>> >>

ICO_NAME == "favicon.ico"

TOUCH_NAME == "apple-touch-icon.png"

TOUCH_SIZE == <<180, 180>>

PngName(s) == "favicon-" \o ToString(s) \o "x" \o ToString(s) \o ".png"

Created(name) == "Created " \o name

SummaryLine == "All favicons saved to '" \o OUTPUT_DIR \o "/'"

----------------------------------------------------------------------------
\* Sequence helpers

Range(s) == {s[k] : k \in 1..Len(s)}

IsPrefix(s, t) == Len(s) <= Len(t) /\ SubSeq(t, 1, Len(s)) = s

Tail1(s) == SubSeq(s, 2, Len(s))

----------------------------------------------------------------------------
\* Images and files

NoImage == [w |-> 0, h |-> 0, mode |-> "", px |-> 0, from |-> <<>>]

\* Image.open(SOURCE): the decoded file, in the file's own mode
Open(f) == [w |-> f.w, h |-> f.h, mode |-> f.mode, px |-> f.px, from |-> <<>>]

\* Image.convert(mode): same pixels and dimensions, in the requested mode
Convert(im, mode) == [im EXCEPT !.mode = mode]

\* variant: a resize that keeps the aspect ratio of im (as thumbnail does)
ResizeKeepAspect(im, sz) ==
    [w |-> IF im.w >= im.h THEN sz[1] ELSE (sz[1] * im.w) \div im.h,
     h |-> IF im.h >= im.w THEN sz[2] ELSE (sz[2] * im.h) \div im.w,
     mode |-> im.mode, px |-> im.px,
     from |-> Append(im.from, <<im.w, im.h>>)]

\* Image.resize(sz, LANCZOS): a new image of exactly sz, resampled from im;
\* `from` records the dimensions of the image it was resampled from
Resize(im, sz) ==
    [w |-> sz[1], h |-> sz[2], mode |-> im.mode, px |-> im.px,
     from |-> Append(im.from, <<im.w, im.h>>)]

Absent == [kind |-> "absent", frames |-> <<>>]

Partial == [kind |-> "partial", frames |-> <<>>]

Old == [kind |-> "other", frames |-> <<>>]

\* Image.save(path.png): a PNG holding the image
PngSave(im) == [kind |-> "png", frames |-> <<im>>]

\* order of Python tuples: lexicographic
TupleLess(a, b) == a[1] < b[1] \/ (a[1] = b[1] /\ a[2] < b[2])

\* sorted(set(szs))
RECURSIVE SortSizes(_)
SortSizes(S) ==
    IF S = {} THEN <<>>
    ELSE LET m == CHOOSE x \in S : \A y \in S : x = y \/ TupleLess(x, y)
         IN  <<m>> \o SortSizes(S \ {m})

\* Image.thumbnail(sz): shrink to fit inside sz, keeping the aspect ratio
Thumbnail(im, sz) ==
    IF sz[1] * im.h >= sz[2] * im.w
    THEN Resize(im, <<IF (sz[2] * im.w) \div im.h < 1 THEN 1
                      ELSE (sz[2] * im.w) \div im.h, sz[2]>>)
    ELSE Resize(im, <<sz[1], IF (sz[1] * im.h) \div im.w < 1 THEN 1
                             ELSE (sz[1] * im.h) \div im.w>>)

\* the first of the provided images that has exactly the size sz
RECURSIVE FirstOfSize(_, _)
FirstOfSize(ims, sz) ==
    IF ims = <<>> THEN NoImage
    ELSE IF <<ims[1].w, ims[1].h>> = sz THEN ims[1]
    ELSE FirstOfSize(Tail1(ims), sz)

\* the frames an ICO save embeds: the requested sizes, sorted, without those
\* larger than the image save() is called on or larger than 256; each frame
\* is the provided image of that size, else a thumbnail of im
IcoFrames(im, szs, append_images) ==
    LET provided == <<im>> \o append_images
        fits(s)  == s[1] <= im.w /\ s[2] <= im.h /\ s[1] <= 256 /\ s[2] <= 256
        kept     == SelectSeq(SortSizes(Range(szs)), fits)
    IN  [k \in 1..Len(kept) |->
            IF FirstOfSize(provided, kept[k]) # NoImage
            THEN FirstOfSize(provided, kept[k])
            ELSE Thumbnail(im, kept[k])]

\* im.save(path, format="ICO", sizes=szs, append_images=...)
IcoSave(im, szs, append_images) ==
    [kind |-> "ico", frames |-> IcoFrames(im, szs, append_images)]

----------------------------------------------------------------------------
\* The environment the script starts in

MissingFile == [state |-> "missing", w |-> 0, h |-> 0, mode |-> "", px |-> 0]

CorruptFile == [state |-> "corrupt", w |-> 0, h |-> 0, mode |-> "", px |-> 0]

\* icon.png: absent, undecodable, or a picture (square or not, large or small)
SourceFiles ==
    { MissingFile, CorruptFile,
      [state |-> "ok", w |-> 512, h |-> 512, mode |-> "RGBA", px |-> 1],
      [state |-> "ok", w |-> 800, h |-> 600, mode |-> "RGB",  px |-> 2],
      [state |-> "ok", w |-> 10,  h |-> 20,  mode |-> "P",    px |-> 3] }

\* the names the script writes
OutputNames == {PngName(sizes[k]) : k \in 1..Len(sizes)} \cup {ICO_NAME, TOUCH_NAME}

\* other files that may already lie in favicons/
Unrelated == {"notes.txt", "favicon-24x24.png"}

AllNames == OutputNames \cup Unrelated

\* variant: os.makedirs(OUTPUT_DIR) without exist_ok raises
MakedirsFailsNoExistOk(state, writable) ==
    state # "absent" \/ ~writable

\* os.makedirs(OUTPUT_DIR, exist_ok=True) raises
MakedirsFails(state, writable) ==
    state = "file" \/ (state = "absent" /\ ~writable)

Init ==
    /\ pc = "makedirs"
    /\ size = 1
    /\ img = NoImage
    /\ resized = NoImage
    /\ ico_images = <<>>
    /\ src \in SourceFiles
    /\ dirState \in {"absent", "dir", "file"}
    /\ dirWritable \in BOOLEAN
    /\ \E present \in SUBSET Unrelated, stale \in BOOLEAN :
          fs = [n \in AllNames |->
                   IF n \in present \/ (stale /\ n \in OutputNames)
                   THEN Old ELSE Absent]
    /\ dirState # "dir" => \A n \in AllNames : fs[n] = Absent
    /\ dirState # "absent" => dirWritable
    /\ out = <<>>
    /\ written = <<>>
    /\ events = <<>>
    /\ failed = ""
    /\ exitCode = -1
    /\ run = 1
    /\ fs0 = fs
    /\ prev = [outcome |-> "none", fs |-> fs]

----------------------------------------------------------------------------
\* The statements of the script

\* variant: the exception is caught and the process exits normally
RaiseExitZero(step) ==
    /\ pc' = "error"
    /\ failed' = step
    /\ exitCode' = 0

\* an unhandled exception in statement `step`: the interpreter exits with
\* status 1; nothing is undone
Raise(step) ==
    /\ pc' = "error"
    /\ failed' = step
    /\ exitCode' = 1

\* variant: a failed write removes the files this run has written
FailedWriteRollback(name) ==
    fs' = [n \in DOMAIN fs |-> IF n \in Range(written) THEN Absent ELSE fs[n]]

\* what a failed write leaves at `name`: the file as it was, or a truncated one
FailedWrite(name) ==
    \/ fs' = fs
    \/ fs' = [fs EXCEPT ![name] = Partial]

\* line 6: os.makedirs(OUTPUT_DIR, exist_ok=True)
MakeDirs ==
    /\ pc = "makedirs"
    /\ IF MakedirsFails(dirState, dirWritable)
       THEN /\ Raise("makedirs")
            /\ UNCHANGED <<dirState, events>>
       ELSE /\ dirState' = "dir"
            /\ pc' = "open"
            /\ events' = Append(events, "makedirs")
            /\ UNCHANGED <<failed, exitCode>>
    /\ UNCHANGED <<size, img, resized, ico_images, src, dirWritable, fs, out,
                   written, run, fs0, prev>>

\* variant: a source that cannot be decoded is replaced by a blank image
LoadSourceFallback ==
    /\ pc = "open"
    /\ IF src.state = "ok"
       THEN /\ img' = Convert(Open(src), "RGBA")
            /\ UNCHANGED failed
       ELSE /\ img' = [w |-> 1, h |-> 1, mode |-> "RGBA", px |-> 0, from |-> <<>>]
            /\ failed' = "open"
    /\ pc' = "resize"
    /\ size' = 1
    /\ events' = Append(events, "open")
    /\ UNCHANGED <<exitCode, resized, ico_images, src, dirState, dirWritable,
                   fs, out, written, run, fs0, prev>>

\* line 8: img = Image.open(SOURCE).convert("RGBA")
LoadSource ==
    /\ pc = "open"
    /\ IF src.state = "ok"
       THEN /\ img' = Convert(Open(src), "RGBA")
            /\ pc' = "resize"
            /\ size' = 1
            /\ events' = Append(events, "open")
            /\ UNCHANGED <<failed, exitCode>>
       ELSE /\ Raise("open")
            /\ UNCHANGED <<img, size, events>>
    /\ UNCHANGED <<resized, ico_images, src, dirState, dirWritable, fs, out,
                   written, run, fs0, prev>>

\* variant: the loop overwrites img with the resized image
ResizeSquareInPlace ==
    /\ pc = "resize"
    /\ resized' = Resize(img, <<sizes[size], sizes[size]>>)
    /\ img' = resized'
    /\ pc' = "save"
    /\ events' = Append(events, "resize " \o PngName(sizes[size]))
    /\ UNCHANGED <<size, ico_images, src, dirState, dirWritable, fs, out,
                   written, failed, exitCode, run, fs0, prev>>

\* line 14: resized = img.resize((size, size), Image.LANCZOS)
ResizeSquare ==
    /\ pc = "resize"
    /\ resized' = Resize(img, <<sizes[size], sizes[size]>>)
    /\ pc' = "save"
    /\ events' = Append(events, "resize " \o PngName(sizes[size]))
    /\ UNCHANGED <<size, img, ico_images, src, dirState, dirWritable, fs, out,
                   written, failed, exitCode, run, fs0, prev>>

\* line 15: resized.save(os.path.join(OUTPUT_DIR, f"favicon-{size}x{size}.png"))
SaveSquare ==
    /\ pc = "save"
    /\ \/ /\ fs' = [fs EXCEPT ![PngName(sizes[size])] = PngSave(resized)]
          /\ written' = Append(written, PngName(sizes[size]))
          /\ events' = Append(events, "save " \o PngName(sizes[size]))
          /\ pc' = "print"
          /\ UNCHANGED <<failed, exitCode>>
       \/ /\ Raise("save " \o PngName(sizes[size]))
          /\ FailedWrite(PngName(sizes[size]))
          /\ UNCHANGED <<written, events>>
    /\ UNCHANGED <<size, img, resized, ico_images, src, dirState, dirWritable,
                   out, run, fs0, prev>>

\* variant: the loop stops one size early
PrintSquareEarlyExit ==
    /\ pc = "print"
    /\ out' = Append(out, Created(PngName(sizes[size])))
    /\ events' = Append(events, "print " \o PngName(sizes[size]))
    /\ IF size < Len(sizes) - 1
       THEN /\ size' = size + 1
            /\ pc' = "resize"
       ELSE /\ size' = size
            /\ pc' = "ico_build"
    /\ UNCHANGED <<img, resized, ico_images, src, dirState, dirWritable, fs,
                   written, failed, exitCode, run, fs0, prev>>

\* line 16: print(f"Created favicon-{size}x{size}.png"), then the next
\* iteration of the loop of line 13, or line 19 after the last size
PrintSquare ==
    /\ pc = "print"
    /\ out' = Append(out, Created(PngName(sizes[size])))
    /\ events' = Append(events, "print " \o PngName(sizes[size]))
    /\ IF size < Len(sizes)
       THEN /\ size' = size + 1
            /\ pc' = "resize"
       ELSE /\ size' = size
            /\ pc' = "ico_build"
    /\ UNCHANGED <<img, resized, ico_images, src, dirState, dirWritable, fs,
                   written, failed, exitCode, run, fs0, prev>>

\* line 20: ico_images = [img.resize(s, Image.LANCZOS) for s in ico_sizes]
BuildIcoImages ==
    /\ pc = "ico_build"
    /\ ico_images' = [k \in 1..Len(ico_sizes) |-> Resize(img, ico_sizes[k])]
    /\ pc' = "ico_save"
    /\ events' = Append(events, "resize " \o ICO_NAME)
    /\ UNCHANGED <<size, img, resized, src, dirState, dirWritable, fs, out,
                   written, failed, exitCode, run, fs0, prev>>

\* variant: a failed ICO save is ignored and the script goes on
SaveIcoIgnoreError ==
    /\ pc = "ico_save"
    /\ \/ /\ fs' = [fs EXCEPT ![ICO_NAME] =
                       IcoSave(ico_images[1], ico_sizes, Tail1(ico_images))]
          /\ written' = Append(written, ICO_NAME)
       \/ /\ FailedWrite(ICO_NAME)
          /\ UNCHANGED written
    /\ events' = Append(events, "save " \o ICO_NAME)
    /\ pc' = "ico_print"
    /\ UNCHANGED <<failed, exitCode, size, img, resized, ico_images, src,
                   dirState, dirWritable, out, run, fs0, prev>>

\* lines 21-26: ico_images[0].save(..., format="ICO", sizes=ico_sizes,
\*                                 append_images=ico_images[1:])
SaveIco ==
    /\ pc = "ico_save"
    /\ \/ /\ fs' = [fs EXCEPT ![ICO_NAME] =
                       IcoSave(ico_images[1], ico_sizes, Tail1(ico_images))]
          /\ written' = Append(written, ICO_NAME)
          /\ events' = Append(events, "save " \o ICO_NAME)
          /\ pc' = "ico_print"
          /\ UNCHANGED <<failed, exitCode>>
       \/ /\ Raise("save " \o ICO_NAME)
          /\ FailedWrite(ICO_NAME)
          /\ UNCHANGED <<written, events>>
    /\ UNCHANGED <<size, img, resized, ico_images, src, dirState, dirWritable,
                   out, run, fs0, prev>>

\* line 27: print("Created favicon.ico")
PrintIco ==
    /\ pc = "ico_print"
    /\ out' = Append(out, Created(ICO_NAME))
    /\ events' = Append(events, "print " \o ICO_NAME)
    /\ pc' = "touch_save"
    /\ UNCHANGED <<size, img, resized, ico_images, src, dirState, dirWritable,
                   fs, written, failed, exitCode, run, fs0, prev>>

\* line 30: img.resize((180, 180), Image.LANCZOS).save(".../apple-touch-icon.png")
SaveTouch ==
    /\ pc = "touch_save"
    /\ \/ /\ fs' = [fs EXCEPT ![TOUCH_NAME] = PngSave(Resize(img, TOUCH_SIZE))]
          /\ written' = Append(written, TOUCH_NAME)
          /\ events' = Append(events, "save " \o TOUCH_NAME)
          /\ pc' = "touch_print"
          /\ UNCHANGED <<failed, exitCode>>
       \/ /\ Raise("save " \o TOUCH_NAME)
          /\ FailedWrite(TOUCH_NAME)
          /\ UNCHANGED <<written, events>>
    /\ UNCHANGED <<size, img, resized, ico_images, src, dirState, dirWritable,
                   out, run, fs0, prev>>

\* line 31: print("Created apple-touch-icon.png")
PrintTouch ==
    /\ pc = "touch_print"
    /\ out' = Append(out, Created(TOUCH_NAME))
    /\ events' = Append(events, "print " \o TOUCH_NAME)
    /\ pc' = "report"
    /\ UNCHANGED <<size, img, resized, ico_images, src, dirState, dirWritable,
                   fs, written, failed, exitCode, run, fs0, prev>>

\* line 33: print(f"\nAll favicons saved to '{OUTPUT_DIR}/'"): an empty line,
\* then the summary; the script ends and the interpreter exits with status 0
Report ==
    /\ pc = "report"
    /\ out' = out \o <<"", SummaryLine>>
    /\ events' = Append(events, "report")
    /\ pc' = "done"
    /\ exitCode' = 0
    /\ UNCHANGED <<size, img, resized, ico_images, src, dirState, dirWritable,
                   fs, written, failed, run, fs0, prev>>

Terminal == {"done", "error"}

\* the script is started again, on the same icon.png and on favicons/ as the
\* previous run left it; a new process starts with nothing in memory
Rerun ==
    /\ pc \in Terminal
    /\ run < MaxRuns
    /\ run' = run + 1
    /\ prev' = [outcome |-> pc, fs |-> fs]
    /\ fs0' = fs
    /\ pc' = "makedirs"
    /\ size' = 1
    /\ img' = NoImage
    /\ resized' = NoImage
    /\ ico_images' = <<>>
    /\ out' = <<>>
    /\ written' = <<>>
    /\ events' = <<>>
    /\ failed' = ""
    /\ exitCode' = -1
    /\ UNCHANGED <<src, dirState, dirWritable, fs>>

\* one statement of the running script
Step ==
    \/ MakeDirs
    \/ LoadSource
    \/ ResizeSquare
    \/ SaveSquare
    \/ PrintSquare
    \/ BuildIcoImages
    \/ SaveIco
    \/ PrintIco
    \/ SaveTouch
    \/ PrintTouch
    \/ Report

Next ==
    \/ MakeDirs
    \/ LoadSource
    \/ ResizeSquare
    \/ SaveSquare
    \/ PrintSquare
    \/ BuildIcoImages
    \/ SaveIco
    \/ PrintIco
    \/ SaveTouch
    \/ PrintTouch
    \/ Report
    \/ Rerun

Spec == Init /\ [][Next]_vars

\* the interpreter runs the script without suspension: a statement that can
\* run does run
FairSpec == Init /\ [][Next]_vars /\ WF_vars(Step)

----------------------------------------------------------------------------
\* Properties

\* C1: whatever the dimensions of the source, every PNG this run has written
\* is exactly its target size: favicon-SxS.png is S x S for each of the eight
\* sizes, apple-touch-icon.png is 180 x 180, and a completed run has written
\* all nine of them.
C1_ExactTargetSize ==
    LET targets == {16, 32, 48, 64, 128, 180, 192, 512}
        isPng(n, s) == /\ fs[n].kind = "png"
                       /\ Len(fs[n].frames) = 1
                       /\ fs[n].frames[1].w = s
                       /\ fs[n].frames[1].h = s
    IN  /\ \A n \in Range(written) \ {"favicon.ico"} :
               \/ \E s \in targets : n = PngName(s) /\ isPng(n, s)
               \/ n = "apple-touch-icon.png" /\ isPng(n, 180)
        /\ pc = "done" =>
               /\ \A s \in targets : PngName(s) \in Range(written) /\ isPng(PngName(s), s)
               /\ "apple-touch-icon.png" \in Range(written)
               /\ isPng("apple-touch-icon.png", 180)

\* a completed run on the 800 x 600 source
C1_Witness == pc = "done" /\ src.w = 800 /\ src.h = 600

\* C2: after a successful run favicon.ico holds exactly four images, 16x16,
\* 32x32, 48x48 and 64x64 in that order, the first being the image save()
\* was called on.
C2_IcoHoldsFourSizes ==
    pc = "done" =>
        /\ fs["favicon.ico"].kind = "ico"
        /\ [k \in 1..Len(fs["favicon.ico"].frames) |->
               <<fs["favicon.ico"].frames[k].w, fs["favicon.ico"].frames[k].h>>]
           = << <<16, 16>>, <<32, 32>>, <<48, 48>>, <<64, 64>> >>
        /\ fs["favicon.ico"].frames[1] = ico_images[1]

\* C3: a run that fails in makedirs or in decoding icon.png has stopped with
\* an error, has written no file and has printed nothing.
C3_NoOutputOnEarlyFailure ==
    failed \in {"makedirs", "open"} =>
        /\ pc = "error"
        /\ exitCode # 0
        /\ written = <<>>
        /\ out = <<>>
        /\ fs = fs0

\* icon.png is missing and favicons/ already holds a file
C3_Witness ==
    /\ failed = "open"
    /\ src.state = "missing"
    /\ fs0["notes.txt"] # Absent

\* C4 (as stated): unrelated files are unchanged and a completed run has
\* written exactly nine files.
C4_NineFiles ==
    LET expected == {"favicon-16x16.png", "favicon-32x32.png", "favicon-48x48.png",
                     "favicon-64x64.png", "favicon-128x128.png", "favicon-180x180.png",
                     "favicon-192x192.png", "favicon-512x512.png", "favicon.ico",
                     "apple-touch-icon.png"}
    IN  /\ \A n \in DOMAIN fs \ expected : fs[n] = fs0[n]
        /\ pc = "done" => Cardinality(Range(written)) = 9

\* C4 (amended): every file whose name is not one of the fixed output names
\* is unchanged, a run writes only fixed output names, and a completed run
\* has written exactly the ten of them: the eight square PNGs, favicon.ico
\* and apple-touch-icon.png.
C4_TenFiles ==
    LET expected == {"favicon-16x16.png", "favicon-32x32.png", "favicon-48x48.png",
                     "favicon-64x64.png", "favicon-128x128.png", "favicon-180x180.png",
                     "favicon-192x192.png", "favicon-512x512.png", "favicon.ico",
                     "apple-touch-icon.png"}
    IN  /\ \A n \in DOMAIN fs \ expected : fs[n] = fs0[n]
        /\ Range(written) \subseteq expected
        /\ pc = "done" => Range(written) = expected /\ Len(written) = 10

\* a completed run in a directory that held both unrelated files
C4_Witness ==
    /\ pc = "done"
    /\ fs0["notes.txt"] # Absent
    /\ fs0["favicon-24x24.png"] # Absent

\* C5: a run that completes after a completed run leaves every file of
\* favicons/ exactly as the previous run left it, and an existing favicons/
\* directory never makes makedirs fail.
C5_Idempotent ==
    /\ pc = "done" /\ prev.outcome = "done" => fs = prev.fs
    /\ failed = "makedirs" => dirState # "dir"

\* the second of two completed runs
C5_Witness == pc = "done" /\ prev.outcome = "done" /\ run = 2

\* C6: when a save fails the run is over; the files written by the run are
\* the saves that precede the failing one in the fixed output order, each
\* still holding what was saved, and no later output has been touched.
C6_PrefixOnSaveFailure ==
    LET order == <<"favicon-16x16.png", "favicon-32x32.png", "favicon-48x48.png",
                   "favicon-64x64.png", "favicon-128x128.png", "favicon-180x180.png",
                   "favicon-192x192.png", "favicon-512x512.png", "favicon.ico",
                   "apple-touch-icon.png">>
    IN  failed \notin {"", "makedirs", "open"} =>
            /\ pc = "error"
            /\ Len(written) < Len(order)
            /\ written = SubSeq(order, 1, Len(written))
            /\ failed = "save " \o order[Len(written) + 1]
            /\ \A k \in 1..Len(written) : fs[written[k]].kind \in {"png", "ico"}
            /\ \A k \in (Len(written) + 2)..Len(order) : fs[order[k]] = fs0[order[k]]

\* the save of favicon.ico failed after the eight PNGs were written
C6_Witness == failed = "save favicon.ico" /\ Len(written) = 8

\* C7: the statements completed so far are always an initial part of one
\* fixed order: makedirs, open, then resize/save/print for 16, 32, 48, 64,
\* 128, 180, 192, 512, then favicon.ico, then apple-touch-icon.png, then
\* the summary.
C7_FixedOrder ==
    LET sq(n) == <<"resize " \o n, "save " \o n, "print " \o n>>
        order == <<"makedirs", "open">>
                 \o sq("favicon-16x16.png") \o sq("favicon-32x32.png")
                 \o sq("favicon-48x48.png") \o sq("favicon-64x64.png")
                 \o sq("favicon-128x128.png") \o sq("favicon-180x180.png")
                 \o sq("favicon-192x192.png") \o sq("favicon-512x512.png")
                 \o sq("favicon.ico")
                 \o <<"save apple-touch-icon.png", "print apple-touch-icon.png",
                      "report">>
    IN  /\ IsPrefix(events, order)
        /\ pc = "done" => events = order

\* a run that completed all 32 statements
C7_Witness == pc = "done" /\ Len(events) = 32

\* C8: the 'Created' lines printed so far name, in order, files this run has
\* already saved, and trail the saves by at most one; a completed run has
\* printed one 'Created' line per file and then the summary, once; a failed
\* run has not printed the summary.
C8_ConsoleTracksFiles ==
    LET isCreated(l) == \E n \in DOMAIN fs : l = "Created " \o n
        created == SelectSeq(out, isCreated)
        summary == "All favicons saved to 'favicons/'"
    IN  /\ Len(created) <= Len(written)
        /\ Len(written) <= Len(created) + 1
        /\ \A k \in 1..Len(created) : created[k] = "Created " \o written[k]
        /\ pc # "done" => out = created
        /\ pc = "done" => /\ Len(created) = 10
                          /\ Len(written) = 10
                          /\ out = created \o <<"", summary>>
        /\ pc = "error" => summary \notin Range(out)

\* a completed run: ten 'Created' lines, an empty line and the summary
C8_Witness == pc = "done" /\ Len(out) = 12

\* C9: once loaded, img stays the decoded source in RGBA, and every image in
\* every file this run has written was resampled directly from it.
C9_SourceReadOnly ==
    LET loaded == [w |-> src.w, h |-> src.h, mode |-> "RGBA", px |-> src.px,
                   from |-> <<>>]
    IN  /\ pc \notin {"makedirs", "open"} /\ failed \notin {"makedirs", "open"}
              => img = loaded
        /\ \A n \in Range(written) : \A k \in 1..Len(fs[n].frames) :
              /\ fs[n].frames[k].from = << <<src.w, src.h>> >>
              /\ fs[n].frames[k].px = src.px
              /\ fs[n].frames[k].mode = "RGBA"

\* a completed run on the palette-mode source, which load converts
C9_Witness == pc = "done" /\ src.mode = "P" /\ Len(written) = 10

\* C10: every run terminates, in "done" with exit status 0 exactly when no
\* statement failed and otherwise in "error" with a nonzero status at the
\* statement that failed (makedirs, open or a save); no statement runs twice.
C10_Terminates ==
    /\ (pc \notin Terminal) ~> (pc \in Terminal)
    /\ [](LET saves == {"save " \o n : n \in OutputNames}
          IN  /\ pc = "done" <=> exitCode = 0
              /\ pc = "error" <=> exitCode > 0
              /\ pc = "error" <=> failed # ""
              /\ failed # "" => failed \in {"makedirs", "open"} \cup saves
              /\ pc = "done" => Len(written) = 10 /\ Len(events) = 32
              /\ \A j, k \in 1..Len(events) : events[j] = events[k] => j = k)

\* the run failed at its last save
C10_Witness == pc = "error" /\ failed = "save apple-touch-icon.png"

====
